---------------------------- MODULE Spec2Model ----------------------------
(***************************************************************************)
(* Model of the uploader bot (internal/bot/bot.go and the file and link   *)
(* repositories): the dispatcher loop Run, its handlers, the admin        *)
(* session store, the configuration store with its durable file, the      *)
(* membership gate and the deletion timers.                               *)
(*                                                                         *)
(* Text is a sequence of one-character strings, so that strings.Fields,   *)
(* TrimLeft, HasPrefix and the mention regexp are computed, not assumed.  *)
(* The two URL prefixes normalizeChannel strips are one atom each.        *)
(***************************************************************************)
EXTENDS Integers, Sequences, FiniteSets, TLC

VARIABLES
  config,      \* b.config: the live configuration (one shared object)
  cfgFile,     \* content of the file at b.configPath
  admins,      \* b.admins: set of authenticated user ids
  files,       \* table files: file_key -> record
  links,       \* table links: set of file keys with a link row
  timers,      \* armed deleteMessagesLater goroutines
  nextMsgID,   \* next message identifier the transport hands out
  deleted,     \* deletion requests issued by the timer that fired last
  updates,     \* b.updates: the channel's buffered events, oldest first
  closed,      \* the updates channel is closed
  cancelled,   \* ctx.Done() is closed
  pc,          \* position of Run: "wait", "handling" or "stopped"
  cur,         \* the update Run received last
  curSeq,      \* delivery number of cur
  nHandled,    \* number of handlers Run has completed
  nDelivered,  \* number of updates the event source has delivered
  runErr,      \* value Run returned
  trace,       \* external calls made by the handler of cur, in order
  gate,        \* last isMember evaluation of the membership harness
  lastSet,     \* admin harness: last setAdmin argument per user
  lastCall,    \* admin harness: the last call and its result
  cfgLock,     \* holder of b.configMu's write lock (0: free)
  calls,       \* config harness: state of each handleConfigUpdate call
  lastMut,     \* config harness: the call whose updater changed config last
  norm,        \* caption harness: the last processCaption evaluation
  readers      \* config harness: state of each getConfig caller

vars == <<config, cfgFile, admins, files, links, timers, nextMsgID, deleted,
          updates, closed, cancelled, pc, cur, curSeq, nHandled, nDelivered,
          runErr,
          trace, gate, lastSet, lastCall, cfgLock, calls,
          lastMut, norm, readers>>

----------------------------------------------------------------------------
(* Bounds of the model *)

MaxQueue == 2
MaxEvents == 3
MaxHandled == 3
NumCalls == 2
NumReaders == 2
MaxGroups == 2
MaxUsers == 3
MaxCaption == 3

----------------------------------------------------------------------------
(* Text helpers: the Go strings functions the handlers use *)

Space == " "

\* The characters of the model that the regexp class \w matches.
WordChars == {"a", "b", "c", "d", "h", "j", "k", "p", "q", "s", "t", "w", "x"}

RECURSIVE TrimLeft(_)
TrimLeft(s) ==
  IF s # <<>> /\ Head(s) = Space THEN TrimLeft(Tail(s)) ELSE s

RECURSIVE TrimRight(_)
TrimRight(s) ==
  IF s # <<>> /\ s[Len(s)] = Space
  THEN TrimRight(SubSeq(s, 1, Len(s) - 1))
  ELSE s

TrimSpace(s) == TrimRight(TrimLeft(s))

HasPrefix(s, p) == Len(s) >= Len(p) /\ SubSeq(s, 1, Len(p)) = p

TrimPrefix(s, p) ==
  IF HasPrefix(s, p) THEN SubSeq(s, Len(p) + 1, Len(s)) ELSE s

HasSuffix(s, p) ==
  Len(s) >= Len(p) /\ SubSeq(s, Len(s) - Len(p) + 1, Len(s)) = p

TrimSuffix(s, p) ==
  IF HasSuffix(s, p) THEN SubSeq(s, 1, Len(s) - Len(p)) ELSE s

Contains(s, p) ==
  \E i \in 1..(Len(s) - Len(p) + 1) : SubSeq(s, i, i + Len(p) - 1) = p

\* strings.Fields: the maximal runs of non-space characters, in order.
RECURSIVE FieldsFrom(_, _, _)
FieldsFrom(s, word, acc) ==
  IF s = <<>>
  THEN IF word = <<>> THEN acc ELSE Append(acc, word)
  ELSE IF Head(s) = Space
       THEN FieldsFrom(Tail(s), <<>>,
                       IF word = <<>> THEN acc ELSE Append(acc, word))
       ELSE FieldsFrom(Tail(s), Append(word, Head(s)), acc)

\* A parseArgs that does not split: the whole text is the one argument.
parseArgsWhole(text) == IF text = <<>> THEN <<>> ELSE <<text>>

\* parseArgs: strings.Fields(text)
parseArgs(text) == FieldsFrom(text, <<>>, <<>>)

\* Length of the longest run of word characters at the start of s.
RECURSIVE WordRun(_)
WordRun(s) ==
  IF s # <<>> /\ Head(s) \in WordChars THEN 1 + WordRun(Tail(s)) ELSE 0

\* mentionRe.ReplaceAllString(s, tag) for mentionRe = `@\w+`: leftmost,
\* longest matches, the scan resuming after each match.
RECURSIVE ReplaceMentions(_, _)
ReplaceMentions(s, tag) ==
  IF s = <<>> THEN <<>>
  ELSE IF Head(s) = "@" /\ WordRun(Tail(s)) > 0
       THEN tag \o ReplaceMentions(
                     SubSeq(s, 2 + WordRun(Tail(s)), Len(s)), tag)
       ELSE <<Head(s)>> \o ReplaceMentions(Tail(s), tag)

\* A processCaption that keeps a text the default tag is missing from.
processCaptionKeep(cfg, caption) ==
  IF caption = <<>> THEN cfg.DefaultTag
  ELSE ReplaceMentions(caption, cfg.DefaultTag)

processCaption(cfg, caption) ==
  IF caption = <<>> THEN cfg.DefaultTag
  ELSE LET cleaned == ReplaceMentions(caption, cfg.DefaultTag)
       IN IF ~Contains(cleaned, cfg.DefaultTag)
          THEN cfg.DefaultTag
          ELSE cleaned

----------------------------------------------------------------------------
(* Configuration: LoadConfig, Marshal, os.WriteFile *)

NoDelay == 0
DefaultDelay == 30

Password == <<"p">>
HashTag == <<"#", "t">>
BotName == <<"@", "b">>
Token == <<"x">>

\* A configuration file is the tuple of the values it gives, in the order of
\* the Config struct: api_token, bot_username, default_tag, admin_password,
\* delete_delay, sponsored_channels.
ConfigOf(raw) ==
  [APIToken |-> raw[1], BotUsername |-> raw[2], DefaultTag |-> raw[3],
   AdminPassword |-> raw[4], DeleteDelay |-> raw[5],
   SponsoredChannels |-> raw[6]]

RECURSIVE CleanSponsors(_)
CleanSponsors(chs) ==
  IF chs = <<>> THEN <<>>
  ELSE IF TrimSpace(Head(chs)) # <<>>
       THEN <<TrimSpace(Head(chs))>> \o CleanSponsors(Tail(chs))
       ELSE CleanSponsors(Tail(chs))

\* LoadConfig: [ok, cfg]; ok is FALSE when a required field is missing.
LoadConfig(raw) ==
  LET cfg == ConfigOf(raw)
      withDelay == IF cfg.DeleteDelay = NoDelay
                   THEN [cfg EXCEPT !.DeleteDelay = DefaultDelay]
                   ELSE cfg
      cleaned == [withDelay EXCEPT
                    !.SponsoredChannels = CleanSponsors(cfg.SponsoredChannels)]
  IN [ok |-> ~(Len(cleaned.SponsoredChannels) = 0
               \/ cleaned.BotUsername = <<>>
               \/ cleaned.APIToken = <<>>
               \/ cleaned.AdminPassword = <<>>),
      cfg |-> cleaned]

\* yaml.Marshal(b.config)
Marshal(cfg) ==
  <<cfg.APIToken, cfg.BotUsername, cfg.DefaultTag, cfg.AdminPassword,
    cfg.DeleteDelay, cfg.SponsoredChannels>>

\* os.WriteFile(b.configPath, raw, 0o600) opens the file with O_TRUNC and
\* then writes: it can fail before the file is touched ("open"), after the
\* truncation ("trunc") or after part of the data is written ("short").
WriteOutcomes == {"ok", "open", "trunc", "short"}

ShortLen == 3

WriteFile(old, raw, outcome) ==
  CASE outcome = "ok" -> [file |-> raw, err |-> FALSE]
    [] outcome = "open" -> [file |-> old, err |-> TRUE]
    [] outcome = "trunc" -> [file |-> <<>>, err |-> TRUE]
    [] OTHER -> [file |-> SubSeq(raw, 1, ShortLen), err |-> TRUE]

\* An updater that builds the configuration anew around the tag and loses
\* the sponsored channels.
settagUpdaterFresh(cfg, args) ==
  IF Len(args) # 1 \/ ~HasPrefix(args[1], <<"@">>)
  THEN [cfg |-> cfg, response |-> "usage_settag", dirty |-> FALSE]
  ELSE [cfg |-> [cfg EXCEPT !.DefaultTag = args[1],
                            !.SponsoredChannels = <<>>],
        response |-> "tag_updated", dirty |-> TRUE]

\* The updater handleCommand passes for settag: [cfg, response, dirty].
settagUpdater(cfg, args) ==
  IF Len(args) # 1 \/ ~HasPrefix(args[1], <<"@">>)
  THEN [cfg |-> cfg, response |-> "usage_settag", dirty |-> FALSE]
  ELSE [cfg |-> [cfg EXCEPT !.DefaultTag = args[1]],
        response |-> "tag_updated", dirty |-> TRUE]

\* An updateConfig that persists after every updater call.
persistAlways(u) == TRUE

\* updateConfig's test before persistConfig: if dirty
persistNeeded(u) == u.dirty

\* updateConfig run without interruption: updater, then persistConfig when
\* the updater reports a change. wrote tells whether WriteFile was called.
updateConfig(cfg, file, args, outcome) ==
  LET u == settagUpdater(cfg, args)
      w == WriteFile(file, Marshal(u.cfg), outcome)
  IN IF persistNeeded(u)
     THEN [cfg |-> u.cfg, file |-> w.file, response |-> u.response,
           err |-> w.err, wrote |-> TRUE]
     ELSE [cfg |-> u.cfg, file |-> file, response |-> u.response,
           err |-> FALSE, wrote |-> FALSE]

----------------------------------------------------------------------------
(* Admin session store *)

\* An isAdmin that answers true for every identity.
isAdminAny(set, userID) == TRUE

isAdmin(set, userID) == userID \in set

\* A setAdmin whose removal empties the whole set.
setAdminClear(set, userID, active) ==
  IF active THEN set \cup {userID} ELSE {}

setAdmin(set, userID, active) ==
  IF active THEN set \cup {userID} ELSE set \ {userID}

----------------------------------------------------------------------------
(* Membership gate *)

Passing == {"member", "administrator", "creator"}

Statuses == Passing \cup {"left", "kicked", "error"}

normalizeChannel(channel) ==
  TrimSpace(
    TrimSuffix(
      TrimPrefix(
        TrimPrefix(TrimPrefix(TrimSpace(channel), <<"@">>),
                   <<"https://t.me/">>),
        <<"http://t.me/">>),
      <<"/">>))

\* userHasStatus: answer is what GetChatMember returns for this query
\* ("error" for a failed call). No query is made for a channel whose
\* normalized name is empty.
userHasStatus(channel, answer) ==
  LET normalized == normalizeChannel(channel)
  IN IF normalized = <<>>
     THEN [ok |-> FALSE, queried |-> <<>>]
     ELSE [ok |-> answer \in Passing, queried |-> <<normalized>>]

\* A loop that accepts as soon as one channel passes.
RECURSIVE memberLoopAny(_, _, _, _)
memberLoopAny(channels, answers, i, queried) ==
  IF i > Len(channels) THEN [ok |-> FALSE, queried |-> queried]
  ELSE LET r == userHasStatus(channels[i], answers[i])
       IN IF r.ok
          THEN [ok |-> TRUE, queried |-> queried \o r.queried]
          ELSE memberLoopAny(channels, answers, i + 1, queried \o r.queried)

\* A loop that queries every channel before it answers.
RECURSIVE memberLoopAll(_, _, _, _)
memberLoopAll(channels, answers, i, queried) ==
  IF i > Len(channels) THEN [ok |-> TRUE, queried |-> queried]
  ELSE LET r == userHasStatus(channels[i], answers[i])
           rest == memberLoopAll(channels, answers, i + 1,
                                 queried \o r.queried)
       IN [ok |-> r.ok /\ rest.ok, queried |-> rest.queried]

\* isMember: answers[i] is the oracle's answer for the i-th channel.
\* Returns the result and the queries issued, in order.
RECURSIVE memberLoop(_, _, _, _)
memberLoop(channels, answers, i, queried) ==
  IF i > Len(channels) THEN [ok |-> TRUE, queried |-> queried]
  ELSE LET r == userHasStatus(channels[i], answers[i])
       IN IF ~r.ok
          THEN [ok |-> FALSE, queried |-> queried \o r.queried]
          ELSE memberLoop(channels, answers, i + 1, queried \o r.queried)

isMember(cfg, answers) ==
  IF Len(cfg.SponsoredChannels) = 0
  THEN [ok |-> TRUE, queried |-> <<>>]
  ELSE memberLoop(cfg.SponsoredChannels, answers, 1, <<>>)

----------------------------------------------------------------------------
(* Content and link repositories *)

Keys == {<<"k">>, <<"j">>}

\* A Save that overwrites the row of a key the table already holds.
SaveFileUpsert(table, key, fileID, fileType, caption, dbOk) ==
  IF ~dbOk
  THEN [table |-> table, key |-> <<>>, err |-> TRUE]
  ELSE [table |-> [k \in DOMAIN table \cup {key} |->
                     IF k = key
                     THEN [FileID |-> fileID, Caption |-> caption,
                           FileType |-> fileType]
                     ELSE table[k]],
        key |-> key, err |-> FALSE]

\* FileRepository.Save: generateKey draws key; the INSERT fails on a
\* database error and on a key the table already holds (file_key UNIQUE).
SaveFile(table, key, fileID, fileType, caption, dbOk) ==
  IF ~dbOk \/ key \in DOMAIN table
  THEN [table |-> table, key |-> <<>>, err |-> TRUE]
  ELSE [table |-> [k \in DOMAIN table \cup {key} |->
                     IF k = key
                     THEN [FileID |-> fileID, Caption |-> caption,
                           FileType |-> fileType]
                     ELSE table[k]],
        key |-> key, err |-> FALSE]

\* FileRepository.UpdateCaption: UPDATE ... WHERE file_key = $2 changes the
\* rows that match, and reports no error when none does.
UpdateCaption(table, key, caption, dbOk) ==
  IF ~dbOk THEN [table |-> table, err |-> TRUE]
  ELSE [table |-> [k \in DOMAIN table |->
                     IF k = key THEN [table[k] EXCEPT !.Caption = caption]
                     ELSE table[k]],
        err |-> FALSE]

\* FileRepository.Get: found is FALSE for sql.ErrNoRows (nil, nil).
GetFile(table, key, dbOk) ==
  IF ~dbOk THEN [found |-> FALSE, err |-> TRUE]
  ELSE [found |-> key \in DOMAIN table, err |-> FALSE]

\* link Repository.Save: file_key is UNIQUE in links.
SaveLink(rows, key, dbOk) ==
  IF ~dbOk \/ key \in rows
  THEN [rows |-> rows, err |-> TRUE]
  ELSE [rows |-> rows \cup {key}, err |-> FALSE]

\* addFile
addFile(cfg, table, key, fileID, fileType, caption, dbOk) ==
  SaveFile(table, key, fileID,
           IF fileType = "" THEN "document" ELSE fileType,
           IF caption = <<>> THEN cfg.DefaultTag ELSE caption, dbOk)

\* updateCaption
updateCaption(cfg, table, key, caption, dbOk) ==
  UpdateCaption(table, key, processCaption(cfg, caption), dbOk)

----------------------------------------------------------------------------
(* Updates *)

Users == {1, 2}

\* An update. cb: CallbackQuery is set (cbMsg: its Message is set; cbData);
\* msg: Message is set; from: Message.From.ID, 0 when From is nil; chat:
\* Message.Chat.ID; isCmd, cmd, args: IsCommand(), Command(),
\* CommandArguments(); doc, video: the FileID, "" when the field is nil;
\* photo: the FileIDs of the photo sizes; caption: Message.Caption.
NoUpdate ==
  [cb |-> FALSE, cbMsg |-> FALSE, cbData |-> "", msg |-> FALSE, from |-> 0,
   chat |-> 0, isCmd |-> FALSE, cmd |-> "", args |-> <<>>, doc |-> "",
   video |-> "", photo |-> <<>>, caption |-> <<>>]

Callback(hasMsg, data) ==
  [NoUpdate EXCEPT !.cb = TRUE, !.cbMsg = hasMsg, !.cbData = data]

Message(u) == [NoUpdate EXCEPT !.msg = TRUE, !.from = u, !.chat = u]

Command(u, cmd, args) ==
  [Message(u) EXCEPT !.isCmd = TRUE, !.cmd = cmd, !.args = args]

Document(u, caption) ==
  [Message(u) EXCEPT !.doc = "fdoc", !.caption = caption]

Video(u, caption) ==
  [Message(u) EXCEPT !.video = "fvid", !.caption = caption]

Photo(u, caption) ==
  [Message(u) EXCEPT !.photo = <<"fsmall", "fbig">>, !.caption = caption]

\* One external call of a handler: Send, Request, GetChatMember (one entry
\* per isMember evaluation, arg: the channels queried), a repository call
\* or the configuration write.
Call(op, what, arg, ok) == [op |-> op, what |-> what, arg |-> arg, ok |-> ok]

Sent(what, arg, ok) == Call("send", what, arg, ok)

----------------------------------------------------------------------------
(* Handlers. Each is the whole handler: the outcomes of its external calls *)
(* (a send that fails, a database error, the key drawn, the oracle's      *)
(* answers, the outcome of the file write) are chosen with \E.            *)

\* sendFileByType, called with the calls the handler made before it.
sendFileByType(chat, record, before) ==
  IF record.FileType \in {"document", "photo"}
  THEN /\ \E ok \in BOOLEAN :
            trace' = Append(before, Sent(record.FileType, record.Caption, ok))
       /\ UNCHANGED <<timers, nextMsgID>>
  ELSE IF record.FileType = "video"
  THEN \E okVideo \in BOOLEAN, okWarn \in BOOLEAN :
         IF ~okVideo
         THEN /\ trace' = Append(before, Sent("video", record.Caption, FALSE))
              /\ UNCHANGED <<timers, nextMsgID>>
         ELSE IF ~okWarn
         THEN /\ trace' = before \o <<Sent("video", record.Caption, TRUE),
                                      Sent("warning", <<>>, FALSE)>>
              /\ nextMsgID' = nextMsgID + 1
              /\ UNCHANGED timers
         ELSE /\ trace' = before \o <<Sent("video", record.Caption, TRUE),
                                      Sent("warning", <<>>, TRUE)>>
              /\ nextMsgID' = nextMsgID + 2
              /\ timers' = timers \cup
                   {[chat |-> chat, ids |-> <<nextMsgID, nextMsgID + 1>>,
                     delay |-> config.DeleteDelay]}
  ELSE /\ trace' = before
       /\ UNCHANGED <<timers, nextMsgID>>

\* handleStart after the membership gate: the lookup and the delivery.
startLookup(m, before) ==
  \E dbOk \in BOOLEAN :
    LET key == parseArgs(m.args)[1]
        got == GetFile(files, key, dbOk)
        looked == Append(before, Call("getFile", "", key, ~got.err))
    IN IF got.err
       THEN /\ \E ok \in BOOLEAN :
                 trace' = Append(looked, Sent("apology", <<>>, ok))
            /\ UNCHANGED <<timers, nextMsgID>>
       ELSE IF ~got.found
       THEN /\ \E ok \in BOOLEAN :
                 trace' = Append(looked, Sent("not_found", <<>>, ok))
            /\ UNCHANGED <<timers, nextMsgID>>
       ELSE sendFileByType(m.chat, files[key], looked)

\* A handleStart that does not stop at a failed membership check.
startGatedOpen(m, mem, before) == startLookup(m, before)

\* handleStart once isMember has answered mem.
startGated(m, mem, before) ==
  IF ~mem.ok
  THEN /\ \E ok \in BOOLEAN : trace' = Append(before, Sent("join", <<>>, ok))
       /\ UNCHANGED <<timers, nextMsgID>>
  ELSE startLookup(m, before)

handleStart(m) ==
  /\ UNCHANGED <<config, cfgFile, admins, files, links>>
  /\ IF m.from = 0
     THEN trace' = <<>> /\ UNCHANGED <<timers, nextMsgID>>
     ELSE IF Len(parseArgs(m.args)) = 0
     THEN /\ \E ok \in BOOLEAN : trace' = <<Sent("welcome", <<>>, ok)>>
          /\ UNCHANGED <<timers, nextMsgID>>
     ELSE \E answers \in [1..Len(config.SponsoredChannels) -> Statuses] :
            LET mem == isMember(config, answers)
            IN startGated(m, mem,
                          <<Call("isMember", "", mem.queried, mem.ok)>>)

handleHelp(m) ==
  /\ UNCHANGED <<config, cfgFile, admins, files, links, timers, nextMsgID>>
  /\ IF m.from = 0
     THEN trace' = <<>>
     ELSE \E ok \in BOOLEAN : trace' = <<Sent("help", <<>>, ok)>>

handleLogin(m) ==
  /\ UNCHANGED <<config, cfgFile, files, links, timers, nextMsgID>>
  /\ IF m.from = 0
     THEN trace' = <<>> /\ UNCHANGED admins
     ELSE LET args == parseArgs(m.args)
          IN IF Len(args) # 1
             THEN /\ \E ok \in BOOLEAN :
                       trace' = <<Sent("usage_login", <<>>, ok)>>
                  /\ UNCHANGED admins
             ELSE IF args[1] # config.AdminPassword
             THEN /\ \E ok \in BOOLEAN :
                       trace' = <<Sent("invalid_password", <<>>, ok)>>
                  /\ UNCHANGED admins
             ELSE /\ admins' = setAdmin(admins, m.from, TRUE)
                  /\ \E ok \in BOOLEAN :
                       trace' = <<Sent("authenticated", <<>>, ok)>>

handleLogout(m) ==
  /\ UNCHANGED <<config, cfgFile, files, links, timers, nextMsgID>>
  /\ IF m.from = 0
     THEN trace' = <<>> /\ UNCHANGED admins
     ELSE IF ~isAdmin(admins, m.from)
     THEN /\ \E ok \in BOOLEAN : trace' = <<Sent("not_logged_in", <<>>, ok)>>
          /\ UNCHANGED admins
     ELSE /\ admins' = setAdmin(admins, m.from, FALSE)
          /\ \E ok \in BOOLEAN : trace' = <<Sent("logged_out", <<>>, ok)>>

\* The admin check that opens handleConfigUpdate, handleMedia and
\* handleSetCaption.
\* An admin check that only looks for a sender.
adminOnlyAnySender(m) == m.from # 0

adminOnly(m) == m.from # 0 /\ isAdmin(admins, m.from)

handleSetCaption(m) ==
  /\ UNCHANGED <<config, cfgFile, admins, links, timers, nextMsgID>>
  /\ IF ~adminOnly(m)
     THEN trace' = <<>> /\ UNCHANGED files
     ELSE LET raw == TrimLeft(m.args)
              fields == parseArgs(raw)
          IN IF raw = <<>> \/ Len(fields) = 0
             THEN /\ \E ok \in BOOLEAN :
                       trace' = <<Sent("usage_setcaption", <<>>, ok)>>
                  /\ UNCHANGED files
             ELSE LET fileKey == fields[1]
                      caption == TrimLeft(
                                   SubSeq(raw, Len(fileKey) + 1, Len(raw)))
                  IN IF TrimSpace(caption) = <<>>
                     THEN /\ \E ok \in BOOLEAN :
                               trace' = <<Sent("caption_empty", <<>>, ok)>>
                          /\ UNCHANGED files
                     ELSE \E dbOk \in BOOLEAN, ok \in BOOLEAN :
                            LET r == updateCaption(config, files, fileKey,
                                                   caption, dbOk)
                            IN /\ files' = r.table
                               /\ trace' =
                                    <<Call("updateCaption", "", fileKey,
                                           ~r.err),
                                      Sent(IF r.err THEN "caption_failed"
                                           ELSE "caption_updated",
                                           fileKey, ok)>>

\* handleConfigUpdate with the settag updater of handleCommand.
handleConfigUpdate(m) ==
  /\ UNCHANGED <<admins, files, links, timers, nextMsgID>>
  /\ IF ~adminOnly(m)
     THEN trace' = <<>> /\ UNCHANGED <<config, cfgFile>>
     ELSE \E outcome \in WriteOutcomes, ok \in BOOLEAN, okFail \in BOOLEAN :
            LET r == updateConfig(config, cfgFile, parseArgs(m.args), outcome)
            IN /\ config' = r.cfg
               /\ cfgFile' = r.file
               /\ trace' =
                    (IF r.wrote
                     THEN <<Call("writeConfig", "", r.cfg.DefaultTag, ~r.err)>>
                     ELSE <<>>)
                    \o (IF r.response # ""
                        THEN <<Sent(r.response, r.cfg.DefaultTag, ok)>>
                        ELSE <<>>)
                    \o (IF r.err
                        THEN <<Sent("persist_failed", <<>>, okFail)>>
                        ELSE <<>>)

\* The kind and file handle handleMedia picks: document, video, photo.
mediaKind(m) ==
  IF m.doc # "" THEN [fileID |-> m.doc, fileType |-> "document"]
  ELSE IF m.video # "" THEN [fileID |-> m.video, fileType |-> "video"]
  ELSE IF Len(m.photo) > 0
       THEN [fileID |-> m.photo[Len(m.photo)], fileType |-> "photo"]
       ELSE [fileID |-> "", fileType |-> ""]

handleMedia(m) ==
  /\ UNCHANGED <<config, cfgFile, admins, timers, nextMsgID>>
  /\ IF ~adminOnly(m) \/ mediaKind(m).fileType = ""
     THEN trace' = <<>> /\ UNCHANGED <<files, links>>
     ELSE \E key \in Keys, dbOk \in BOOLEAN, linkOk \in BOOLEAN,
             ok \in BOOLEAN, okPrompt \in BOOLEAN :
            LET caption == processCaption(config, m.caption)
                saved == addFile(config, files, key, mediaKind(m).fileID,
                                 mediaKind(m).fileType, caption, dbOk)
                linked == SaveLink(links, saved.key, linkOk)
            IN IF saved.err
               THEN /\ trace' = <<Call("saveFile", "", key, FALSE)>>
                    /\ UNCHANGED <<files, links>>
               ELSE /\ files' = saved.table
                    /\ links' = linked.rows
                    /\ trace' = <<Call("saveFile", "", saved.key, TRUE),
                                  Call("saveLink", "", saved.key, ~linked.err),
                                  Sent("link", saved.key, ok),
                                  Sent("prompt", caption, okPrompt)>>

handleCallbackQuery(cq) ==
  /\ UNCHANGED <<config, cfgFile, admins, files, links, timers, nextMsgID>>
  /\ IF ~cq.cbMsg \/ cq.cbData = ""
     THEN trace' = <<>>
     ELSE \E okAnswer \in BOOLEAN, ok \in BOOLEAN :
            trace' = <<Call("answerCallback", "", <<>>, okAnswer)>>
                     \o (IF cq.cbData \in {"guide_upload", "guide_link"}
                         THEN <<Sent(cq.cbData, <<>>, ok)>>
                         ELSE <<>>)

\* An update no handler takes.
NoHandler ==
  /\ trace' = <<>>
  /\ UNCHANGED <<config, cfgFile, admins, files, links, timers, nextMsgID>>

\* A dispatcher that looks for media before it looks for a command.
RouteMediaFirst(u) ==
  IF u.cb THEN "callback"
  ELSE IF ~u.msg THEN "none"
  ELSE IF u.doc # "" \/ u.video # "" \/ Len(u.photo) > 0 THEN "media"
  ELSE IF u.isCmd
       THEN IF u.cmd \in {"start", "help", "login", "logout", "setcaption",
                          "settag"}
            THEN u.cmd
            ELSE "none"
  ELSE "none"

\* The handler Run and handleCommand choose for an update.
Route(u) ==
  IF u.cb THEN "callback"
  ELSE IF ~u.msg THEN "none"
  ELSE IF u.isCmd
       THEN IF u.cmd \in {"start", "help", "login", "logout", "setcaption",
                          "settag"}
            THEN u.cmd
            ELSE "none"
  ELSE IF u.doc # "" \/ u.video # "" \/ Len(u.photo) > 0 THEN "media"
  ELSE "none"

\* The body of one iteration of Run's loop for the update u.
Dispatch(u) ==
  CASE Route(u) = "callback" -> handleCallbackQuery(u)
    [] Route(u) = "start" -> handleStart(u)
    [] Route(u) = "help" -> handleHelp(u)
    [] Route(u) = "login" -> handleLogin(u)
    [] Route(u) = "logout" -> handleLogout(u)
    [] Route(u) = "setcaption" -> handleSetCaption(u)
    [] Route(u) = "settag" -> handleConfigUpdate(u)
    [] Route(u) = "media" -> handleMedia(u)
    [] OTHER -> NoHandler

----------------------------------------------------------------------------
(* The updates the model delivers *)

StartArgs == {<<>>, <<"k">>, <<"j">>}

LoginArgs == {<<>>, <<"p">>, <<"q">>, <<"p", " ", "p">>, <<" ", "p", " ">>}

SetCaptionArgs ==
  {<<>>, <<"k">>, <<"k", " ", "h", " ", "@", "s">>, <<"j", " ", "w">>}

SetTagArgs == {<<>>, <<"@", "a">>, <<"t">>, <<"@", "a", " ", "@", "s">>}

Captions == {<<>>, <<"h", " ", "@", "s">>, <<"h", " ", "@", "s", " ", "w">>}

Events ==
  {Callback(TRUE, d) : d \in {"", "guide_upload", "guide_link", "other"}}
  \cup {Callback(FALSE, "guide_upload"), NoUpdate, Message(1),
        Command(0, "start", <<"k">>), Document(0, <<>>),
        [Callback(TRUE, "guide_link") EXCEPT !.msg = TRUE, !.from = 1,
                                             !.isCmd = TRUE, !.cmd = "help"],
        [Command(1, "help", <<>>) EXCEPT !.doc = "fdoc"],
        [Command(1, "stats", <<>>) EXCEPT !.doc = "fdoc"],
        [Document(1, <<>>) EXCEPT !.video = "fvid",
                                  !.photo = <<"fsmall", "fbig">>],
        [Video(1, <<>>) EXCEPT !.photo = <<"fsmall", "fbig">>]}
  \cup {Command(u, "start", a) : u \in Users, a \in StartArgs}
  \cup {Command(u, c, <<>>) : u \in Users, c \in {"help", "logout", "stats"}}
  \cup {Command(u, "login", a) : u \in Users, a \in LoginArgs}
  \cup {Command(u, "setcaption", a) : u \in Users, a \in SetCaptionArgs}
  \cup {Command(u, "settag", a) : u \in Users, a \in SetTagArgs}
  \cup {Document(u, c) : u \in Users, c \in Captions}
  \cup {Video(u, <<>>) : u \in Users}
  \cup {Photo(1, <<>>)}

\* The updates the event source delivers to the dispatcher loop.
RunEvents ==
  {Callback(TRUE, "guide_upload"), Message(1),
   Command(1, "login", <<"p">>), Command(1, "login", <<"q">>),
   Command(1, "logout", <<>>),
   Command(1, "settag", <<"@", "a">>), Command(1, "settag", <<"t">>),
   Command(1, "setcaption", <<"k", " ", "h", " ", "@", "s">>),
   Command(2, "start", <<"j">>), Command(2, "start", <<>>),
   Video(1, <<>>), Document(1, <<"h", " ", "@", "s">>)}

----------------------------------------------------------------------------
(* The program: New, the event source, Run, the deletion timers *)

InitFile ==
  <<Token, BotName, HashTag, Password, NoDelay,
    <<<<"@", "c">>, <<" ">>, <<"https://t.me/", "d", "/">>>>>>

HarnessUsers == 1..MaxUsers

NoCall ==
  [pc |-> "idle", args |-> <<>>, dirty |-> FALSE, response |-> "",
   raw |-> <<>>, wrote |-> FALSE, held |-> FALSE, err |-> FALSE,
   cfgBefore |-> <<>>, fileBefore |-> <<>>, replies |-> <<>>]

NoReader == [pc |-> "idle", seen |-> <<>>]

NoNorm ==
  [done |-> FALSE, tag |-> <<>>, caption |-> <<>>, once |-> <<>>,
   twice |-> <<>>]

\* The files table New finds: the database outlives the process, and holds
\* one video uploaded by an earlier run.
StoredFiles ==
  [k \in {<<"j">>} |->
     [FileID |-> "fvid", Caption |-> HashTag, FileType |-> "video"]]

\* Everything but the configuration, as New leaves it.
Idle ==
  /\ admins = {}
  /\ files = StoredFiles
  /\ links = {}
  /\ timers = {}
  /\ nextMsgID = 1
  /\ deleted = <<>>
  /\ updates = <<>>
  /\ closed = FALSE
  /\ cancelled = FALSE
  /\ pc = "wait"
  /\ cur = NoUpdate
  /\ curSeq = 0
  /\ nHandled = 0
  /\ nDelivered = 0
  /\ runErr = ""
  /\ trace = <<>>
  /\ gate = [done |-> FALSE, answers |-> <<>>, ok |-> FALSE, queried |-> <<>>]
  /\ lastSet = [u \in HarnessUsers |-> "none"]
  /\ lastCall = [op |-> "", user |-> 0, active |-> FALSE, result |-> FALSE,
                 before |-> {}]
  /\ cfgLock = 0
  /\ calls = [c \in 1..NumCalls |-> NoCall]
  /\ lastMut = 0
  /\ norm = NoNorm
  /\ readers = [r \in 1..NumReaders |-> NoReader]

\* New: LoadConfig succeeded on the configuration file.
Init ==
  /\ cfgFile = InitFile
  /\ LoadConfig(cfgFile).ok
  /\ config = LoadConfig(cfgFile).cfg
  /\ Idle

harnessVars == <<gate, lastSet, lastCall, cfgLock, calls,
          lastMut, norm, readers>>
handlerVars == <<config, cfgFile, admins, files, links, timers, nextMsgID,
                 trace>>

\* The transport's receiver puts the next update into the channel.
Deliver(u) ==
  /\ pc # "stopped"
  /\ ~closed
  /\ nDelivered < MaxEvents
  /\ Len(updates) < MaxQueue
  /\ updates' = Append(updates, [seq |-> nDelivered + 1, u |-> u])
  /\ nDelivered' = nDelivered + 1
  /\ UNCHANGED <<handlerVars, deleted, closed, cancelled, pc, cur, curSeq,
                 nHandled, runErr, harnessVars>>

\* The transport closes the updates channel.
Close ==
  /\ pc # "stopped"
  /\ ~closed
  /\ closed' = TRUE
  /\ UNCHANGED <<handlerVars, deleted, updates, cancelled, pc, cur, curSeq,
                 nHandled, nDelivered, runErr, harnessVars>>

\* The process receives SIGINT or SIGTERM: ctx is cancelled.
Cancel ==
  /\ pc # "stopped"
  /\ ~cancelled
  /\ cancelled' = TRUE
  /\ UNCHANGED <<handlerVars, deleted, updates, closed, pc, cur, curSeq,
                 nHandled, nDelivered, runErr, harnessVars>>

\* A Run whose select is also reached while a handler runs.
AtSelectOrHandling == pc \in {"wait", "handling"}

\* Run is at its select statement.
AtSelect == pc = "wait"

\* A Run whose select has no case for ctx.Done().
RunIgnoresCancel == pc = "nowhere" /\ UNCHANGED vars

\* select, case <-ctx.Done()
RunCancelled ==
  /\ AtSelect
  /\ cancelled
  /\ pc' = "stopped"
  /\ runErr' = "context canceled"
  /\ UNCHANGED <<handlerVars, deleted, updates, closed, cancelled, cur,
                 curSeq, nHandled, nDelivered, harnessVars>>

\* select, case update, ok := <-b.updates with ok false
RunClosed ==
  /\ AtSelect
  /\ closed
  /\ updates = <<>>
  /\ pc' = "stopped"
  /\ runErr' = "updates channel closed"
  /\ UNCHANGED <<handlerVars, deleted, updates, closed, cancelled, cur,
                 curSeq, nHandled, nDelivered, harnessVars>>

\* A receive that takes the newest buffered update.
RecvNewest(q) == Len(q)

\* The position in the channel's buffer a receive takes: a Go channel is
\* first in, first out.
RecvIndex(q) == 1

\* select, case update, ok := <-b.updates with ok true
RunRecv ==
  /\ AtSelect
  /\ updates # <<>>
  /\ LET i == RecvIndex(updates)
     IN /\ cur' = updates[i].u
        /\ curSeq' = updates[i].seq
        /\ updates' = SubSeq(updates, 1, i - 1)
                      \o SubSeq(updates, i + 1, Len(updates))
  /\ pc' = "handling"
  /\ trace' = <<>>
  /\ UNCHANGED <<config, cfgFile, admins, files, links, timers, nextMsgID,
                 deleted, closed, cancelled, nHandled, nDelivered, runErr,
                 harnessVars>>

\* A loop that ends when a call of the handler failed.
afterHandlerStopOnFailure(t) ==
  IF \E i \in DOMAIN t : ~t[i].ok THEN "stopped" ELSE "wait"

\* Where Run goes when a handler returns: the handlers return nothing, and
\* every branch of the loop body ends in continue or at the end of the body.
afterHandler(t) == "wait"

\* The handler of the received update runs to its end.
RunHandle ==
  /\ pc = "handling"
  /\ Dispatch(cur)
  /\ pc' = afterHandler(trace')
  /\ nHandled' = nHandled + 1
  /\ UNCHANGED <<deleted, updates, closed, cancelled, cur, curSeq,
                 nDelivered, runErr, harnessVars>>

\* A loop that gives up at the first deletion request that fails.
deleteRequestsUntilFail(ids, oks, during) ==
  LET n == IF \E i \in 1..Len(ids) : ~oks[i]
           THEN CHOOSE i \in 1..Len(ids) :
                  ~oks[i] /\ \A j \in 1..(i - 1) : oks[j]
           ELSE Len(ids)
  IN [i \in 1..n |-> [id |-> ids[i], ok |-> oks[i], during |-> during]]

\* deleteMessagesLater's loop, for _, id := range messageIDs: one Request per
\* identifier, in order; a failed request is logged and the loop goes on.
deleteRequests(ids, oks, during) ==
  [i \in 1..Len(ids) |-> [id |-> ids[i], ok |-> oks[i], during |-> during]]

\* A deleteMessagesLater goroutine: its timer fires and it requests the
\* deletion of each message in turn, whatever the earlier requests returned.
TimerFire(t) ==
  /\ pc # "stopped"
  /\ t \in timers
  /\ timers' = timers \ {t}
  /\ \E oks \in [1..Len(t.ids) -> BOOLEAN] :
       deleted' = deleteRequests(t.ids, oks, pc)
  /\ UNCHANGED <<config, cfgFile, admins, files, links, nextMsgID, trace,
                 updates, closed, cancelled, pc, cur, curSeq, nHandled,
                 nDelivered, runErr, harnessVars>>

Next ==
  \/ \E u \in RunEvents : Deliver(u)
  \/ Close
  \/ Cancel
  \/ RunCancelled
  \/ RunClosed
  \/ RunRecv
  \/ RunHandle
  \/ \E t \in timers : TimerFire(t)

Spec == Init /\ [][Next]_vars

----------------------------------------------------------------------------
(* The dispatcher loop with an event source that never runs dry: updates  *)
(* arrive whenever the channel has room, without a bound on their number. *)
(* The delivery and handler counters stay where they are.                 *)

LiveEvents ==
  {Message(1), Command(1, "help", <<>>), Command(1, "login", <<"p">>)}

\* The transport's receiver puts one more update into the channel.
Arrive(u) ==
  /\ pc # "stopped"
  /\ ~closed
  /\ Len(updates) < MaxQueue
  /\ updates' = Append(updates, [seq |-> 0, u |-> u])
  /\ UNCHANGED <<handlerVars, deleted, closed, cancelled, pc, cur, curSeq,
                 nHandled, nDelivered, runErr, harnessVars>>

\* The handler of the received update runs to its end: every external call
\* returns, with a result or with an error.
RunHandleLive ==
  /\ pc = "handling"
  /\ Dispatch(cur)
  /\ pc' = afterHandler(trace')
  /\ UNCHANGED <<deleted, updates, closed, cancelled, cur, curSeq, nHandled,
                 nDelivered, runErr, harnessVars>>

NextLive ==
  \/ \E u \in LiveEvents : Arrive(u)
  \/ Close
  \/ Cancel
  \/ RunCancelled
  \/ RunClosed
  \/ RunRecv
  \/ RunHandleLive

\* Run's goroutine keeps running and its handlers return (weak fairness of
\* the receive, the handler and the return on a closed channel). A select
\* with several ready cases picks one uniformly at random, so a case that
\* is ready at every visit of the select is taken in the end (strong
\* fairness of the cancellation case).
SpecLive ==
  /\ Init
  /\ [][NextLive]_vars
  /\ WF_vars(RunRecv)
  /\ WF_vars(RunHandleLive)
  /\ WF_vars(RunClosed)
  /\ SF_vars(RunCancelled)

----------------------------------------------------------------------------
(* The handlers alone: every step is one whole iteration of Run's loop,   *)
(* the receive of an update and its handler, for every update of Events.  *)

Iterate(u) ==
  /\ pc = "wait"
  /\ nHandled < MaxHandled
  /\ Dispatch(u)
  /\ cur' = u
  /\ curSeq' = curSeq + 1
  /\ nHandled' = nHandled + 1
  /\ nDelivered' = nDelivered + 1
  /\ UNCHANGED <<deleted, updates, closed, cancelled, pc, runErr,
                 harnessVars>>

IterateCallback == \E u \in Events : Route(u) = "callback" /\ Iterate(u)
IterateStart == \E u \in Events : Route(u) = "start" /\ Iterate(u)
IterateHelp == \E u \in Events : Route(u) = "help" /\ Iterate(u)
IterateLogin == \E u \in Events : Route(u) = "login" /\ Iterate(u)
IterateLogout == \E u \in Events : Route(u) = "logout" /\ Iterate(u)
IterateSetCaption == \E u \in Events : Route(u) = "setcaption" /\ Iterate(u)
IterateSetTag == \E u \in Events : Route(u) = "settag" /\ Iterate(u)
IterateMedia == \E u \in Events : Route(u) = "media" /\ Iterate(u)
IterateNone == \E u \in Events : Route(u) = "none" /\ Iterate(u)

NextHandlers ==
  \/ IterateCallback
  \/ IterateStart
  \/ IterateHelp
  \/ IterateLogin
  \/ IterateLogout
  \/ IterateSetCaption
  \/ IterateSetTag
  \/ IterateMedia
  \/ IterateNone

SpecHandlers == Init /\ [][NextHandlers]_vars

----------------------------------------------------------------------------
(* The membership gate alone: isMember on every configuration LoadConfig  *)
(* accepts with up to MaxGroups sponsored_channels entries, against every *)
(* assignment of oracle answers.                                           *)

ChannelRefs ==
  {<<"@", "c">>, <<"https://t.me/", "d", "/">>, <<"@">>, <<" ">>}

ChannelLists == UNION {[1..n -> ChannelRefs] : n \in 1..MaxGroups}

InitMember ==
  /\ cfgFile \in {<<Token, BotName, HashTag, Password, DefaultDelay, chs>> :
                    chs \in ChannelLists}
  /\ LoadConfig(cfgFile).ok
  /\ config = LoadConfig(cfgFile).cfg
  /\ Idle

CheckMember(answers) ==
  /\ gate' = [done |-> TRUE, answers |-> answers,
              ok |-> isMember(config, answers).ok,
              queried |-> isMember(config, answers).queried]
  /\ UNCHANGED <<handlerVars, deleted, updates, closed, cancelled, pc, cur,
                 curSeq, nHandled, nDelivered, runErr, lastSet, lastCall,
                 cfgLock, calls, lastMut, norm, readers>>

NextMember ==
  \E answers \in [1..Len(config.SponsoredChannels) -> Statuses] :
    CheckMember(answers)

SpecMember == InitMember /\ [][NextMember]_vars

----------------------------------------------------------------------------
(* The admin session store alone: any sequence of setAdmin and isAdmin.   *)

SetAdminCall(u, active) ==
  /\ admins' = setAdmin(admins, u, active)
  /\ lastSet' = [lastSet EXCEPT ![u] = IF active THEN "true" ELSE "false"]
  /\ lastCall' = [op |-> "setAdmin", user |-> u, active |-> active,
                  result |-> FALSE, before |-> admins]
  /\ UNCHANGED <<config, cfgFile, files, links, timers, nextMsgID, trace,
                 deleted, updates, closed, cancelled, pc, cur, curSeq,
                 nHandled, nDelivered, runErr, gate, cfgLock, calls, lastMut, norm, readers>>

IsAdminCall(u) ==
  /\ lastCall' = [op |-> "isAdmin", user |-> u, active |-> FALSE,
                  result |-> isAdmin(admins, u), before |-> admins]
  /\ UNCHANGED <<handlerVars, deleted, updates, closed, cancelled, pc, cur,
                 curSeq, nHandled, nDelivered, runErr, gate, lastSet,
                 cfgLock, calls, lastMut, norm, readers>>

NextAdmin ==
  \/ \E u \in HarnessUsers, active \in BOOLEAN : SetAdminCall(u, active)
  \/ \E u \in HarnessUsers : IsAdminCall(u)

SpecAdmin == Init /\ [][NextAdmin]_vars

----------------------------------------------------------------------------
(* The configuration store under concurrent callers: NumCalls calls of    *)
(* handleConfigUpdate by authenticated senders, each a goroutine of its   *)
(* own, taken through updateConfig statement by statement.                *)

\* A Lock that does not wait.
LockFreeAlways(holder) == TRUE

\* b.configMu.Lock() returns when no one holds the lock.
LockFree(holder) == holder = 0

\* The callers of getConfig that hold the read lock.
RLockHolders == {r \in 1..NumReaders : readers[r].pc = "rlocked"}

CfgLock(c, args) ==
  /\ calls[c].pc = "idle"
  /\ LockFree(cfgLock)
  /\ RLockHolders = {}
  /\ cfgLock' = c
  /\ calls' = [calls EXCEPT ![c] =
                 [NoCall EXCEPT !.pc = "locked", !.args = args,
                                !.cfgBefore = config,
                                !.fileBefore = cfgFile]]
  /\ UNCHANGED <<handlerVars, deleted, updates, closed, cancelled, pc, cur,
                 curSeq, nHandled, nDelivered, runErr, gate, lastSet,
                 lastCall, lastMut, norm, readers>>

\* response, dirty, err := updater(b.config)
CfgUpdate(c) ==
  /\ calls[c].pc = "locked"
  /\ LET u == settagUpdater(config, parseArgs(calls[c].args))
     IN /\ config' = u.cfg
        /\ calls' = [calls EXCEPT ![c].dirty = u.dirty,
                                  ![c].response = u.response,
                                  ![c].pc = IF persistNeeded(u)
                                            THEN "marshal"
                                            ELSE "unlock"]
        /\ lastMut' = IF u.dirty THEN c ELSE lastMut
  /\ UNCHANGED <<cfgFile, admins, files, links, timers, nextMsgID, trace,
                 deleted, updates, closed, cancelled, pc, cur, curSeq,
                 nHandled, nDelivered, runErr, gate, lastSet, lastCall,
                 cfgLock, norm, readers>>

\* persistConfig: raw, err := yaml.Marshal(b.config)
CfgMarshal(c) ==
  /\ calls[c].pc = "marshal"
  /\ calls' = [calls EXCEPT ![c].raw = Marshal(config), ![c].pc = "write"]
  /\ UNCHANGED <<handlerVars, deleted, updates, closed, cancelled, pc, cur,
                 curSeq, nHandled, nDelivered, runErr, gate, lastSet,
                 lastCall, cfgLock, lastMut, norm, readers>>

\* persistConfig: os.WriteFile(b.configPath, raw, 0o600)
CfgWrite(c, outcome) ==
  /\ calls[c].pc = "write"
  /\ LET w == WriteFile(cfgFile, calls[c].raw, outcome)
     IN /\ cfgFile' = w.file
        /\ calls' = [calls EXCEPT ![c].wrote = TRUE,
                                  ![c].held = (cfgLock = c),
                                  ![c].err = w.err,
                                  ![c].pc = "unlock"]
  /\ UNCHANGED <<config, admins, files, links, timers, nextMsgID, trace,
                 deleted, updates, closed, cancelled, pc, cur, curSeq,
                 nHandled, nDelivered, runErr, gate, lastSet, lastCall,
                 cfgLock, lastMut, norm, readers>>

\* defer b.configMu.Unlock(), then handleConfigUpdate's replies.
CfgUnlock(c) ==
  /\ calls[c].pc = "unlock"
  /\ cfgLock' = 0
  /\ calls' = [calls EXCEPT
                 ![c].pc = "returned",
                 ![c].replies =
                   (IF calls[c].response # "" THEN <<calls[c].response>>
                    ELSE <<>>)
                   \o (IF calls[c].err THEN <<"persist_failed">> ELSE <<>>)]
  /\ UNCHANGED <<handlerVars, deleted, updates, closed, cancelled, pc, cur,
                 curSeq, nHandled, nDelivered, runErr, gate, lastSet,
                 lastCall, lastMut, norm, readers>>

\* An RLock that does not wait for the writer.
RLockFreeAlways(holder) == TRUE

\* b.configMu.RLock() returns when no writer holds the lock.
RLockFree(holder) == holder = 0

\* getConfig: b.configMu.RLock()
GetConfigRLock(r) ==
  /\ readers[r].pc = "idle"
  /\ RLockFree(cfgLock)
  /\ readers' = [readers EXCEPT ![r].pc = "rlocked"]
  /\ UNCHANGED <<handlerVars, deleted, updates, closed, cancelled, pc, cur,
                 curSeq, nHandled, nDelivered, runErr, gate, lastSet,
                 lastCall, cfgLock, calls, lastMut, norm>>

\* getConfig: return b.config, then the deferred RUnlock. The caller holds
\* the pointer b.config; seen is the default tag it showed at the return.
GetConfigReturn(r) ==
  /\ readers[r].pc = "rlocked"
  /\ readers' = [readers EXCEPT ![r] = [pc |-> "holding",
                                        seen |-> config.DefaultTag]]
  /\ UNCHANGED <<handlerVars, deleted, updates, closed, cancelled, pc, cur,
                 curSeq, nHandled, nDelivered, runErr, gate, lastSet,
                 lastCall, cfgLock, calls, lastMut, norm>>

\* The caller is done with the value getConfig returned.
GetConfigDrop(r) ==
  /\ readers[r].pc = "holding"
  /\ readers' = [readers EXCEPT ![r] = NoReader]
  /\ UNCHANGED <<handlerVars, deleted, updates, closed, cancelled, pc, cur,
                 curSeq, nHandled, nDelivered, runErr, gate, lastSet,
                 lastCall, cfgLock, calls, lastMut, norm>>

NextCfg ==
  \/ \E c \in 1..NumCalls, args \in SetTagArgs \cup {<<"@", "s">>} :
       CfgLock(c, args)
  \/ \E c \in 1..NumCalls : CfgUpdate(c)
  \/ \E c \in 1..NumCalls : CfgMarshal(c)
  \/ \E c \in 1..NumCalls, outcome \in WriteOutcomes : CfgWrite(c, outcome)
  \/ \E c \in 1..NumCalls : CfgUnlock(c)
  \/ \E r \in 1..NumReaders : GetConfigRLock(r)
  \/ \E r \in 1..NumReaders : GetConfigReturn(r)
  \/ \E r \in 1..NumReaders : GetConfigDrop(r)

SpecCfg == Init /\ [][NextCfg]_vars

----------------------------------------------------------------------------
(* Caption normalization alone: processCaption on every caption of up to  *)
(* MaxCaption characters, under every default tag the configuration file  *)
(* or a settag command installs.                                           *)

CaptionChars == {"h", "s", Space, "@"}

CaptionTexts == UNION {[1..n -> CaptionChars] : n \in 0..MaxCaption}

\* default_tag values of the configuration file: LoadConfig accepts any.
FileTags == {<<>>, HashTag, <<"@", "a">>}

\* Argument texts of settag: the updater accepts any one field that starts
\* with "@".
TagArgs ==
  {<<"@", "s">>, <<"@", "a", "-", "b">>, <<"@">>, <<"@", "@", "a">>,
   <<"t">>}

InitCaption ==
  /\ cfgFile \in {<<Token, BotName, tag, Password, DefaultDelay,
                     <<<<"@", "c">>>>>> : tag \in FileTags}
  /\ LoadConfig(cfgFile).ok
  /\ config = LoadConfig(cfgFile).cfg
  /\ Idle

\* A settag command of an authenticated sender whose file write succeeds.
InstallTag(args) ==
  /\ LET r == updateConfig(config, cfgFile, parseArgs(args), "ok")
     IN config' = r.cfg /\ cfgFile' = r.file
  /\ UNCHANGED <<admins, files, links, timers, nextMsgID, trace, deleted,
                 updates, closed, cancelled, pc, cur, curSeq, nHandled,
                 nDelivered, runErr, gate, lastSet, lastCall, cfgLock, calls,
                 lastMut, norm, readers>>

\* processCaption(caption), and processCaption of its result.
Normalize(caption) ==
  /\ norm' = [done |-> TRUE, tag |-> config.DefaultTag, caption |-> caption,
              once |-> processCaption(config, caption),
              twice |-> processCaption(config,
                                       processCaption(config, caption))]
  /\ UNCHANGED <<handlerVars, deleted, updates, closed, cancelled, pc, cur,
                 curSeq, nHandled, nDelivered, runErr, gate, lastSet,
                 lastCall, cfgLock, calls, lastMut, readers>>

NextCaption ==
  \/ \E args \in TagArgs : InstallTag(args)
  \/ \E caption \in CaptionTexts : Normalize(caption)

SpecCaption == InitCaption /\ [][NextCaption]_vars

----------------------------------------------------------------------------
(* Claims *)

\* Run has completed the handler of cur.
Handled == nHandled > 0 /\ pc = "wait"

\* The step is one whole iteration of Run's loop (SpecHandlers).
Iterated == nHandled' = nHandled + 1

ContentSend(e) ==
  e.op = "send" /\ e.what \in {"document", "photo", "video", "warning"}

\* C1: handling start <key> looks the content up (getFile) and sends content
\* (sendFileByType) only if isMember returned true in that same handler;
\* when isMember returned false the handler made exactly one outbound send,
\* the join instructions, and neither looked up nor delivered anything.
C1_GateBeforeContent ==
  (Handled /\ Route(cur) = "start") =>
    /\ (\E i \in DOMAIN trace : trace[i].op = "getFile" \/ ContentSend(trace[i]))
         => (trace[1].op = "isMember" /\ trace[1].ok)
    /\ (trace # <<>> /\ trace[1].op = "isMember" /\ ~trace[1].ok)
         => (Len(trace) = 2 /\ trace[2].op = "send" /\ trace[2].what = "join")

\* A non-member asked for a key that is stored, and got the join message.
C1_Witness ==
  /\ Handled /\ Route(cur) = "start" /\ cur.from # 0
  /\ cur.args \in DOMAIN files
  /\ Len(trace) = 2
  /\ trace[1].op = "isMember" /\ ~trace[1].ok
  /\ trace[2].what = "join"

AllAnswersPass == \A i \in DOMAIN gate.answers : gate.answers[i] \in Passing

\* C2 as stated: isMember returns true if and only if every group in the
\* list answers with a passing status.
C2_TrueIffAllPass == gate.done => (gate.ok <=> AllAnswersPass)

\* C2 amended: isMember returns true if and only if every group in the list
\* has a reference whose normalized name is not empty and answers with a
\* passing status; so one group that errors or answers any other status
\* makes the result false whatever the other groups answer.
C2_TrueIffAllQueryableAndPass ==
  gate.done =>
    (gate.ok <=>
       \A i \in 1..Len(config.SponsoredChannels) :
         /\ normalizeChannel(config.SponsoredChannels[i]) # <<>>
         /\ gate.answers[i] \in Passing)

\* The first group passes, the second errors, and the result is false.
C2_Witness ==
  /\ gate.done /\ ~gate.ok
  /\ Len(config.SponsoredChannels) >= 2
  /\ normalizeChannel(config.SponsoredChannels[1]) # <<>>
  /\ normalizeChannel(config.SponsoredChannels[2]) # <<>>
  /\ gate.answers[1] \in Passing
  /\ gate.answers[2] = "error"

AdminOnlyRoutes == {"setcaption", "settag", "media"}

\* C3: an admin-only update (setcaption, settag, a document, video or photo
\* message) from a sender that is not in the admin set causes no outbound
\* call and changes nothing: not the stored captions and records, the link
\* records, the configuration, the configuration file or the admin set.
C3_NonAdminSilentDrop ==
  [][(Iterated /\ Route(cur') \in AdminOnlyRoutes /\ cur'.from \notin admins)
       => /\ trace' = <<>>
          /\ UNCHANGED <<config, cfgFile, admins, files, links, timers,
                         nextMsgID>>]_vars

\* A sender who is not an admin sent setcaption for a stored key while
\* someone else is logged in, and nothing was sent.
C3_Witness ==
  /\ Handled /\ Route(cur) = "setcaption"
  /\ cur.from # 0 /\ cur.from \notin admins /\ admins # {}
  /\ \E k \in DOMAIN files : HasPrefix(cur.args, k \o <<Space>>)
  /\ trace = <<>>

\* The text is one argument equal to secret: secret with spaces around it.
OneArgEqual(text, secret) ==
  /\ secret # <<>>
  /\ ~Contains(secret, <<Space>>)
  /\ TrimSpace(text) = secret

\* C4: handleLogin adds the sender to the admin set if and only if the
\* command has exactly one argument and it equals the configured admin
\* secret; otherwise it sends one error reply and leaves the admin set as
\* it was.
C4_LoginIffSecret ==
  [][(Iterated /\ Route(cur') = "login" /\ cur'.from # 0)
       => IF OneArgEqual(cur'.args, config.AdminPassword)
          THEN admins' = admins \cup {cur'.from}
          ELSE /\ admins' = admins
               /\ Len(trace') = 1
               /\ trace'[1].op = "send"
               /\ trace'[1].what \in {"usage_login", "invalid_password"}]_vars

\* An authenticated sender sent login with two arguments, got the usage
\* reply and is still authenticated.
C4_Witness ==
  /\ Handled /\ Route(cur) = "login"
  /\ Len(parseArgs(cur.args)) = 2
  /\ cur.from \in admins
  /\ Len(trace) = 1 /\ trace[1].what = "usage_login"

\* C5: isAdmin(id) is true exactly when the last setAdmin for id was
\* setAdmin(id, true), whatever calls were made for other identities; a
\* setAdmin call leaves the answer for every other identity unchanged, and
\* repeating it changes nothing.
C5_AdminFollowsLastSet ==
  /\ \A u \in HarnessUsers : isAdmin(admins, u) <=> (lastSet[u] = "true")
  /\ lastCall.op = "isAdmin"
       => (lastCall.result <=> (lastSet[lastCall.user] = "true"))
  /\ lastCall.op = "setAdmin"
       => /\ \A v \in HarnessUsers \ {lastCall.user} :
               isAdmin(admins, v) <=> isAdmin(lastCall.before, v)
          /\ setAdmin(admins, lastCall.user, lastCall.active) = admins

\* One identity was set and another one removed afterwards; isAdmin still
\* answers true for the first.
C5_Witness ==
  /\ lastCall.op = "setAdmin" /\ ~lastCall.active
  /\ lastCall.user \in lastCall.before
  /\ \E u \in HarnessUsers \ {lastCall.user} : isAdmin(admins, u)

\* C6: Run never has two handlers active: the update it received last is
\* the only one whose handler is unfinished, every update before it has been
\* handled to the end, and the buffered updates follow in delivery order. A
\* receive is possible whenever an update is buffered at the wait point,
\* whether or not deletion timers are armed.
C6_OneHandlerInOrder ==
  /\ pc = "handling" => curSeq = nHandled + 1
  /\ pc # "handling" => curSeq = nHandled
  /\ \A i \in DOMAIN updates : updates[i].seq = curSeq + i
  /\ (pc = "wait" /\ updates # <<>>) => ENABLED RunRecv

\* A deletion timer armed by an earlier handler fired while the handler of
\* a later update was running, with another update waiting in the buffer.
C6_Witness ==
  /\ pc = "handling" /\ curSeq >= 2
  /\ updates # <<>>
  /\ deleted # <<>> /\ deleted[1].during = "handling"

\* C7 as stated: with the cancellation signal set at the wait point, Run
\* dispatches no further update, even when one is available.
C7_NoDispatchAfterCancel ==
  [][(pc = "wait" /\ cancelled) => pc' # "handling"]_vars

\* C7 amended: cancellation is observed only at the wait point. With the
\* signal set there and no update buffered and the channel open, the only
\* step of Run is to return the cancellation error; with an update buffered
\* the select may take either case, so Run may still dispatch it. Run stops
\* from the wait point only, and a handler that is running when the signal
\* is set is not interrupted: it completes first.
C7_CancelAtWaitPoint ==
  [][/\ (pc = "wait" /\ cancelled /\ updates = <<>> /\ ~closed /\ pc' # pc)
          => (pc' = "stopped" /\ runErr' = "context canceled")
     /\ pc' = "stopped" => (pc = "stopped" \/ pc = "wait")
     /\ (pc' = "stopped" /\ pc = "wait" /\ runErr' = "context canceled")
          => cancelled
     /\ (pc = "handling" /\ pc' # pc)
          => (pc' = "wait" /\ nHandled' = nHandled + 1)]_vars

\* Run returned the cancellation error after completing a handler, with an
\* update still in the buffer.
C7_Witness ==
  /\ pc = "stopped" /\ runErr = "context canceled"
  /\ cancelled /\ nHandled >= 1
  /\ updates # <<>>

\* The text is one argument that starts with the marker character.
OneTagArg(text) ==
  /\ HasPrefix(TrimSpace(text), <<"@">>)
  /\ ~Contains(TrimSpace(text), <<Space>>)

\* C8: updateConfig writes the configuration file only when the updater
\* reported a change, and holds the configuration lock when it does. A
\* settag whose arguments are invalid leaves the configuration and the file
\* as they were, issues no write and replies with the usage text.
C8_WriteOnlyWhenDirtyUnderLock ==
  \A c \in 1..NumCalls :
    /\ calls[c].wrote => (calls[c].dirty /\ calls[c].held)
    /\ calls[c].pc \in {"marshal", "write"} => (calls[c].dirty /\ cfgLock = c)
    /\ (calls[c].pc \in {"unlock", "returned"} /\ ~OneTagArg(calls[c].args))
         => (~calls[c].wrote /\ ~calls[c].dirty)
    /\ (calls[c].pc = "unlock" /\ ~OneTagArg(calls[c].args))
         => (config = calls[c].cfgBefore /\ cfgFile = calls[c].fileBefore)
    /\ (calls[c].pc = "returned" /\ ~OneTagArg(calls[c].args))
         => calls[c].replies = <<"usage_settag">>

\* One call with an argument that lacks the marker returned the usage text
\* without a write, after another call had changed the tag and written.
C8_Witness ==
  \E c, d \in 1..NumCalls :
    /\ calls[c].pc = "returned" /\ calls[c].args = <<"t">>
    /\ ~calls[c].wrote /\ calls[c].replies = <<"usage_settag">>
    /\ calls[c].cfgBefore.DefaultTag # HashTag
    /\ calls[d].pc = "returned" /\ calls[d].wrote /\ calls[d].held

WriteFailed(t) == \E i \in DOMAIN t : t[i].op = "writeConfig" /\ ~t[i].ok

\* C9: when a valid settag from an admin changes the default tag and the
\* write of the configuration file fails, the in-memory default tag keeps
\* the new value (caption normalization uses it), the file keeps its
\* previous content, the admin receives the failure notice and Run goes on.
C9_FailedWriteKeepsFile ==
  [][(pc = "handling" /\ pc' = "wait" /\ Route(cur) = "settag"
      /\ WriteFailed(trace'))
       => /\ config'.DefaultTag = TrimSpace(cur.args)
          /\ processCaption(config', <<>>) = TrimSpace(cur.args)
          /\ cfgFile' = cfgFile
          /\ trace'[Len(trace')].op = "send"
          /\ trace'[Len(trace')].what = "persist_failed"
          /\ runErr' = ""]_vars

InCall(c) == calls[c].pc \in {"locked", "marshal", "write", "unlock"}

AllReturned == \A c \in 1..NumCalls : calls[c].pc \in {"idle", "returned"}

VideoDelivered ==
  \E i \in 1..(Len(trace) - 1) :
    /\ trace[i].op = "send" /\ trace[i].what = "video" /\ trace[i].ok
    /\ trace[i + 1].op = "send" /\ trace[i + 1].what = "warning"
    /\ trace[i + 1].ok

TimerIDs(t) == {t.ids[i] : i \in DOMAIN t.ids}

\* C11: a video delivered with both sends succeeding hands exactly two
\* message identifiers, the video's and the warning's, to one new deletion
\* timer with the delete delay configured at that moment. A timer that
\* fires is gone and issues one deletion request for each of its two
\* identifiers, in order, the second also when the first failed; no two
\* timers share an identifier and no identifier is handed out again, so no
\* deletion is requested twice.
C11_TwoIdsOneTimerOnce ==
  /\ [](\A t \in timers :
          /\ Len(t.ids) = 2
          /\ t.ids[2] # t.ids[1]
          /\ \A i \in 1..2 : t.ids[i] < nextMsgID
          /\ \A o \in timers \ {t} : TimerIDs(o) \cap TimerIDs(t) = {})
  /\ [](\A i \in DOMAIN deleted :
          /\ deleted[i].id < nextMsgID
          /\ \A t \in timers : deleted[i].id \notin TimerIDs(t))
  /\ [][(pc = "handling" /\ pc' = "wait" /\ VideoDelivered')
          => /\ timers' = timers \cup
                  {[chat |-> cur.chat, ids |-> <<nextMsgID, nextMsgID + 1>>,
                    delay |-> config.DeleteDelay]}
             /\ Cardinality(timers') = Cardinality(timers) + 1
             /\ nextMsgID' = nextMsgID + 2]_vars
  /\ [][(timers' # timers /\ timers' \subseteq timers)
          => \E t \in timers :
               /\ timers' = timers \ {t}
               /\ Len(deleted') = 2
               /\ \A i \in 1..2 : deleted'[i].id = t.ids[i]]_vars

\* The timer of a delivered video fired: the first deletion request failed
\* and the second was issued all the same, while a later timer is armed.
C11_Witness ==
  /\ Len(deleted) = 2
  /\ ~deleted[1].ok /\ deleted[2].ok
  /\ timers # {}

\* The video send at position i of the calls t succeeded.
VideoSentAt(t, i) == t[i].op = "send" /\ t[i].what = "video" /\ t[i].ok

\* C12: every video message that was sent successfully is followed by the
\* warning send and is handed to a deletion timer: the handler that sent it
\* arms a new timer that covers the video's message identifier, whatever
\* the warning send returned.
C12_VideoAlwaysScheduled ==
  [][(Iterated /\ \E i \in DOMAIN trace' : VideoSentAt(trace', i))
       => /\ \A i \in DOMAIN trace' :
               VideoSentAt(trace', i)
                 => (i < Len(trace') /\ trace'[i + 1].what = "warning")
          /\ \E t \in timers' \ timers : nextMsgID \in TimerIDs(t)]_vars

\* The update is a media message from an authenticated sender.
AdminMedia(u) ==
  Route(u) = "media" /\ u.from # 0 /\ u.from \in admins

CountOp(t, op) == Cardinality({i \in DOMAIN t : t[i].op = op})

\* C13: handleMedia for an authenticated sender requests the content record
\* once. When that succeeded the record is stored under the new key, the
\* link record is requested next, and the locator reply and the caption
\* prompt follow whether or not the link was created; a link failure leaves
\* the content record in place. When the content creation failed (a
\* database error or a key the table already holds) the error is the only
\* outcome: no record, no link request, no locator, no second attempt.
C13_LocatorIffContentSaved ==
  [][(Iterated /\ AdminMedia(cur'))
       => /\ trace' # <<>> /\ trace'[1].op = "saveFile"
          /\ CountOp(trace', "saveFile") = 1
          /\ IF trace'[1].ok
             THEN /\ trace'[1].arg \notin DOMAIN files
                  /\ DOMAIN files' = DOMAIN files \cup {trace'[1].arg}
                  /\ \A k \in DOMAIN files : files'[k] = files[k]
                  /\ Len(trace') = 4
                  /\ trace'[2].op = "saveLink"
                  /\ trace'[2].arg = trace'[1].arg
                  /\ links' = IF trace'[2].ok
                              THEN links \cup {trace'[1].arg}
                              ELSE links
                  /\ trace'[3].op = "send" /\ trace'[3].what = "link"
                  /\ trace'[3].arg = trace'[1].arg
                  /\ trace'[4].op = "send" /\ trace'[4].what = "prompt"
             ELSE /\ Len(trace') = 1
                  /\ files' = files
                  /\ links' = links]_vars

\* An upload whose link record could not be created: the content record is
\* stored, no link row exists, and the locator and the prompt were sent.
C13_Witness ==
  /\ Handled /\ AdminMedia(cur)
  /\ Len(trace) = 4
  /\ trace[1].op = "saveFile" /\ trace[1].ok
  /\ trace[2].op = "saveLink" /\ ~trace[2].ok
  /\ trace[1].arg \in DOMAIN files
  /\ trace[1].arg \notin links
  /\ trace[3].what = "link" /\ trace[4].what = "prompt"

\* A call of the handler of cur failed.
CallFailed(t) == \E i \in DOMAIN t : ~t[i].ok

\* C14: no failed external call of a handler (a send, the roster query, a
\* content get, create or update, the link create, the configuration
\* write) and no failed deletion request ends Run: the handler returns to
\* the wait point, where a buffered update can be received, and Run
\* returns only with the cancellation error when cancellation was
\* signalled, or with the closed-channel error when the event source is
\* closed and drained.
C14_FailuresDoNotStopRun ==
  /\ [][(pc = "handling" /\ pc' # pc)
          => (pc' = "wait" /\ runErr' = "" /\ nHandled' = nHandled + 1)]_vars
  /\ [][(pc' = "stopped" /\ pc # "stopped")
          => \/ cancelled /\ runErr' = "context canceled"
             \/ closed /\ updates = <<>>
                /\ runErr' = "updates channel closed"]_vars
  /\ [][deleted' # deleted => (pc' = pc /\ runErr' = runErr)]_vars
  /\ []((pc = "wait" /\ updates # <<>>) => ENABLED RunRecv)
  /\ [](pc = "stopped" <=> runErr # "")

\* Two handlers have completed, a call of the last one failed and so did a
\* deletion request; Run is at the wait point with the next update
\* buffered, neither cancelled nor closed.
C14_Witness ==
  /\ pc = "wait" /\ nHandled >= 2 /\ runErr = ""
  /\ CallFailed(trace)
  /\ \E i \in DOMAIN deleted : ~deleted[i].ok
  /\ updates # <<>>
  /\ ~cancelled /\ ~closed

\* C15: processCaption is idempotent under an unchanged default tag, for
\* every caption and every default tag the configuration file or settag
\* installs: processCaption(processCaption(c)) = processCaption(c); and
\* when the mention-replaced text does not contain the default tag the
\* result is the default tag.
C15_Idempotent ==
  norm.done =>
    /\ norm.twice = norm.once
    /\ ~Contains(ReplaceMentions(norm.caption, norm.tag), norm.tag)
         => norm.once = norm.tag

\* Position i of s starts a mention token: the marker, then a word character.
TokenStart(s, i) == s[i] = "@" /\ i < Len(s) /\ s[i + 1] \in WordChars

\* Position i of s is a word character of a mention token.
InToken(s, i) ==
  \E j \in 1..(i - 1) :
    s[j] = "@" /\ \A k \in (j + 1)..i : s[k] \in WordChars

RECURSIVE RefReplaced(_, _, _)
RefReplaced(s, tag, i) ==
  IF i > Len(s) THEN <<>>
  ELSE (IF TokenStart(s, i) THEN tag
        ELSE IF InToken(s, i) THEN <<>>
        ELSE <<s[i]>>) \o RefReplaced(s, tag, i + 1)

\* The reference normalization of a raw caption under a default tag.
RefCaption(raw, tag) ==
  IF raw = <<>> THEN tag
  ELSE IF Contains(RefReplaced(raw, tag, 1), tag)
       THEN RefReplaced(raw, tag, 1)
       ELSE tag

\* The caption text of a setcaption command: what follows the key.
CaptionOf(args, key) ==
  TrimLeft(SubSeq(TrimLeft(args), Len(key) + 1, Len(TrimLeft(args))))

\* C16: the caption stored for an admin upload, and the caption setcaption
\* stores for an existing key, is the reference normalization of the raw
\* caption under the default tag of that moment: the tag for an empty
\* caption, else the caption with every mention token replaced by the tag
\* if that text contains the tag, else the tag alone. The caption
\* "h @s w" under the tag "#t" is stored as "h #t w".
C16_StoredIsReference ==
  [][Iterated
       => /\ (AdminMedia(cur') /\ trace' # <<>> /\ trace'[1].ok)
               => /\ files'[trace'[1].arg].Caption =
                       RefCaption(cur'.caption, config.DefaultTag)
                  /\ (cur'.caption = <<"h", " ", "@", "s", " ", "w">>
                      /\ config.DefaultTag = HashTag)
                       => files'[trace'[1].arg].Caption =
                            <<"h", " ", "#", "t", " ", "w">>
          /\ (Route(cur') = "setcaption" /\ trace' # <<>>
              /\ trace'[1].op = "updateCaption" /\ trace'[1].ok
              /\ trace'[1].arg \in DOMAIN files)
               => files'[trace'[1].arg].Caption =
                    RefCaption(CaptionOf(cur'.args, trace'[1].arg),
                               config.DefaultTag)]_vars

\* An admin uploaded a document with the caption "h @s w" under the tag
\* "#t", and the record holds "h #t w".
C16_Witness ==
  /\ Handled /\ AdminMedia(cur)
  /\ cur.caption = <<"h", " ", "@", "s", " ", "w">>
  /\ config.DefaultTag = HashTag
  /\ trace # <<>> /\ trace[1].op = "saveFile" /\ trace[1].ok
  /\ files[trace[1].arg].Caption = <<"h", " ", "#", "t", " ", "w">>

\* A caller of getConfig is waiting for the read lock.
ReaderWaits(r) == readers[r].pc = "idle" /\ ~ENABLED GetConfigRLock(r)

DuringWrite == \E c \in 1..NumCalls : calls[c].pc = "write"

C18_ReadIsSnapshot ==
  \A r \in 1..NumReaders :
    readers[r].pc = "holding"
      => /\ config.DefaultTag = readers[r].seen
         /\ \A c \in 1..NumCalls : calls[c].pc # "locked"

KnownCommands == {"start", "help", "login", "logout", "setcaption", "settag"}

\* The calls each handler can make; no call belongs to two handlers.
HandlerCalls(h) ==
  CASE h = "callback" ->
         [op : {"answerCallback"}, what : {""}]
         \cup [op : {"send"}, what : {"guide_upload", "guide_link"}]
    [] h = "start" ->
         [op : {"isMember", "getFile"}, what : {""}]
         \cup [op : {"send"},
               what : {"welcome", "join", "apology", "not_found", "document",
                       "photo", "video", "warning"}]
    [] h = "help" -> [op : {"send"}, what : {"help"}]
    [] h = "login" ->
         [op : {"send"},
          what : {"usage_login", "invalid_password", "authenticated"}]
    [] h = "logout" -> [op : {"send"}, what : {"not_logged_in", "logged_out"}]
    [] h = "setcaption" ->
         [op : {"updateCaption"}, what : {""}]
         \cup [op : {"send"},
               what : {"usage_setcaption", "caption_empty", "caption_failed",
                       "caption_updated"}]
    [] h = "settag" ->
         [op : {"writeConfig"}, what : {""}]
         \cup [op : {"send"},
               what : {"usage_settag", "tag_updated", "persist_failed"}]
    [] h = "media" ->
         [op : {"saveFile", "saveLink"}, what : {""}]
         \cup [op : {"send"}, what : {"link", "prompt"}]
    [] OTHER -> {}

\* Every call of t is a call of the handler h.
OnlyCallsOf(t, h) ==
  \A i \in DOMAIN t : [op |-> t[i].op, what |-> t[i].what] \in HandlerCalls(h)

HasMedia(u) == u.doc # "" \/ u.video # "" \/ Len(u.photo) > 0

\* C19: every update Run takes is handled by at most one handler, chosen by
\* priority: the callback handler when the update carries a callback query;
\* else the handler of the command when the message is a command; else the
\* media handler when the message carries a document, a video or a photo,
\* the kind being document before video before photo. An update that is
\* none of these, and a command that is not start, help, login, logout,
\* setcaption or settag, causes no call and no change, and a command
\* message is never handled as media.
C19_OneHandlerByPriority ==
  [][Iterated
       => /\ cur'.cb
               => /\ OnlyCallsOf(trace', "callback")
                  /\ UNCHANGED <<config, cfgFile, admins, files, links,
                                 timers, nextMsgID>>
          /\ (~cur'.cb /\ cur'.msg /\ cur'.isCmd
              /\ cur'.cmd \in KnownCommands)
               => /\ OnlyCallsOf(trace', cur'.cmd)
                  /\ UNCHANGED <<links>>
                  /\ DOMAIN files' = DOMAIN files
                  /\ (cur'.cmd = "help" /\ cur'.from # 0) => Len(trace') = 1
          /\ (~cur'.cb /\ cur'.msg /\ cur'.isCmd
              /\ cur'.cmd \notin KnownCommands)
               => /\ trace' = <<>>
                  /\ UNCHANGED <<config, cfgFile, admins, files, links,
                                 timers, nextMsgID>>
          /\ (~cur'.cb /\ cur'.msg /\ ~cur'.isCmd /\ HasMedia(cur'))
               => /\ OnlyCallsOf(trace', "media")
                  /\ cur'.from \in admins \ {0} => trace' # <<>>
                  /\ (trace' # <<>> /\ trace'[1].ok)
                       => /\ files'[trace'[1].arg].FileType =
                               (IF cur'.doc # "" THEN "document"
                                ELSE IF cur'.video # "" THEN "video"
                                ELSE "photo")
                          /\ files'[trace'[1].arg].FileID =
                               (IF cur'.doc # "" THEN cur'.doc
                                ELSE IF cur'.video # "" THEN cur'.video
                                ELSE cur'.photo[Len(cur'.photo)])
          /\ (~cur'.cb /\ (~cur'.msg \/ (~cur'.isCmd /\ ~HasMedia(cur'))))
               => /\ trace' = <<>>
                  /\ UNCHANGED <<config, cfgFile, admins, files, links,
                                 timers, nextMsgID>>]_vars

\* An authenticated sender sent the help command with a document attached:
\* the help text is the only call and no record was created.
C19_Witness ==
  /\ Handled
  /\ ~cur.cb /\ cur.isCmd /\ cur.cmd = "help" /\ cur.doc # ""
  /\ cur.from \in admins
  /\ Len(trace) = 1 /\ trace[1].what = "help"
  /\ DOMAIN files = DOMAIN StoredFiles

\* The groups that fail: by the oracle's answer alone, and also by a
\* reference whose normalized name is empty.
FailsByAnswer(i) == gate.answers[i] \notin Passing

Unqueryable(i) == normalizeChannel(config.SponsoredChannels[i]) = <<>>

\* The least index of S, or none when S is empty.
FirstOf(S, none) ==
  IF S = {} THEN none ELSE CHOOSE i \in S : \A j \in S : i <= j

NumGroups == Len(config.SponsoredChannels)

\* C20 as stated: the number of queries isMember issues is the index of the
\* first group that errors or answers a status that does not pass, or the
\* length of the list when every group passes.
C20_QueriesUpToFirstFailing ==
  gate.done =>
    Len(gate.queried) =
      FirstOf({i \in 1..NumGroups : FailsByAnswer(i)}, NumGroups)

\* C20 amended: isMember goes through the groups in list order and stops at
\* the first group that fails, by an error, by a status that does not pass,
\* or by a reference whose normalized name is empty. It has then queried
\* every group before that one, in order, and that group too unless its
\* name is empty; no group after it is queried. When no group fails, every
\* group was queried once, in order.
C20_QueriesInOrderUntilStop ==
  gate.done =>
    LET stop == FirstOf({i \in 1..NumGroups :
                           FailsByAnswer(i) \/ Unqueryable(i)},
                        NumGroups + 1)
        last == IF stop > NumGroups THEN NumGroups
                ELSE IF Unqueryable(stop) THEN stop - 1
                ELSE stop
    IN /\ gate.queried =
            [i \in 1..last |-> normalizeChannel(config.SponsoredChannels[i])]
       /\ gate.ok <=> stop > NumGroups

\* The first of two groups answered that the user left: one query was
\* issued, none for the second group.
C20_Witness ==
  /\ gate.done /\ ~gate.ok
  /\ NumGroups >= 2
  /\ ~Unqueryable(1) /\ ~Unqueryable(2)
  /\ gate.answers[1] = "left" /\ gate.answers[2] \in Passing
  /\ gate.queried = <<normalizeChannel(config.SponsoredChannels[1])>>

\* C21: Run terminates on either terminal condition. Once the event source
\* is closed Run returns in the end, with the closed-channel error when
\* cancellation was not signalled, an error that differs from the
\* cancellation error; once cancellation is signalled Run returns in the
\* end, with the cancellation error when the source is not closed, also
\* when updates keep arriving. After its return Run receives nothing and
\* runs no handler.
C21_RunTerminates ==
  /\ closed ~> pc = "stopped"
  /\ cancelled ~> pc = "stopped"
  /\ [](pc = "stopped"
          => \/ runErr = "context canceled" /\ cancelled
             \/ runErr = "updates channel closed" /\ closed
                /\ runErr # "context canceled")
  /\ []((pc = "stopped" /\ ~cancelled) => runErr = "updates channel closed")
  /\ []((pc = "stopped" /\ ~closed) => runErr = "context canceled")
  /\ [][pc = "stopped"
          => UNCHANGED <<pc, runErr, cur, trace, updates, config, cfgFile,
                         admins, files, links, timers, nextMsgID>>]_vars

\* Run returned the cancellation error while the channel was open and full.
C21_Witness ==
  /\ pc = "stopped" /\ runErr = "context canceled"
  /\ ~closed
  /\ Len(updates) = MaxQueue

\* C22: the admin set starts empty and follows the logins and logouts: a
\* handler changes it only by adding the sender of a login whose one
\* argument is the secret, or by removing the sender of a logout who is in
\* the set. A logout by a sender who is not in the set leaves it as it was
\* and sends the not-logged-in reply alone. The handlers of start, help,
\* setcaption, settag (also when it changes the configuration), media and
\* callback updates, and updates without a handler, leave the set unchanged.
C22_AdminsFollowLoginLogout ==
  /\ admins = {}
  /\ [][Iterated
          => /\ admins' # admins
                  => \/ /\ Route(cur') = "login"
                        /\ OneArgEqual(cur'.args, config.AdminPassword)
                        /\ admins' = admins \cup {cur'.from}
                     \/ /\ Route(cur') = "logout"
                        /\ cur'.from \in admins
                        /\ admins' = admins \ {cur'.from}
             /\ (Route(cur') = "login" /\ cur'.from # 0
                 /\ OneArgEqual(cur'.args, config.AdminPassword))
                  => cur'.from \in admins'
             /\ (Route(cur') = "logout" /\ cur'.from \in admins)
                  => /\ cur'.from \notin admins'
                     /\ Len(trace') = 1 /\ trace'[1].what = "logged_out"
             /\ (Route(cur') = "logout" /\ cur'.from # 0
                 /\ cur'.from \notin admins)
                  => /\ Len(trace') = 1 /\ trace'[1].op = "send"
                     /\ trace'[1].what = "not_logged_in"
             /\ (Route(cur') = "settag" /\ config' # config)
                  => admins' = admins /\ admins # {}
             /\ 0 \notin admins']_vars

\* A sender who is not logged in sent logout while another one is logged
\* in: the reply is the not-logged-in text and the other stays logged in.
C22_Witness ==
  /\ Handled /\ Route(cur) = "logout"
  /\ cur.from # 0 /\ cur.from \notin admins
  /\ admins # {}
  /\ Len(trace) = 1 /\ trace[1].what = "not_logged_in"

\* The configuration New loaded at startup.
Loaded == LoadConfig(InitFile).cfg

\* C23: after a successful startup the bot identity, the credentials and
\* the admin secret are never empty and the list of gating groups is never
\* empty and stays the list loaded at startup: the default tag is the only
\* field of the configuration a handler changes. So the gate is never
\* disabled: an isMember that answered true has queried every group.
C23_GateNeverDisabled ==
  /\ config.BotUsername # <<>>
  /\ config.APIToken # <<>>
  /\ config.AdminPassword # <<>>
  /\ Len(config.SponsoredChannels) > 0
  /\ config.SponsoredChannels = Loaded.SponsoredChannels
  /\ [config EXCEPT !.DefaultTag = Loaded.DefaultTag] = Loaded
  /\ (Handled /\ Route(cur) = "start" /\ trace # <<>>
      /\ trace[1].op = "isMember" /\ trace[1].ok)
       => /\ Len(trace[1].arg) = Len(Loaded.SponsoredChannels)
          /\ trace[1].arg # <<>>

\* A settag changed the default tag and its write left the file empty: the
\* live configuration still holds the groups loaded at startup.
C23_Witness ==
  /\ Handled /\ Route(cur) = "settag"
  /\ config.DefaultTag # Loaded.DefaultTag
  /\ cfgFile = <<>>
  /\ config.SponsoredChannels = Loaded.SponsoredChannels

\* The handler replied that the caption was updated.
RepliedUpdated(t) ==
  \E i \in 1..Len(t) : t[i].op = "send" /\ t[i].what = "caption_updated"

\* C24: a setcaption of an admin replies that the caption of the key was
\* updated only when a content record with that key exists and its stored
\* caption was replaced by the normalized caption; for a key without a
\* content record the stored data is unchanged, no record is created and
\* the success reply is not sent.
C24_UpdatedOnlyForExistingKey ==
  [][(Iterated /\ Route(cur') = "setcaption" /\ trace' # <<>>
      /\ trace'[1].op = "updateCaption")
       => /\ RepliedUpdated(trace')
               => /\ trace'[1].arg \in DOMAIN files
                  /\ files'[trace'[1].arg].Caption =
                       processCaption(config,
                                      CaptionOf(cur'.args, trace'[1].arg))
          /\ trace'[1].arg \notin DOMAIN files
               => /\ files' = files
                  /\ ~RepliedUpdated(trace')]_vars

============================================================================
